---------------------------- MODULE Spec2Model ----------------------------
(***************************************************************************)
(* Model of the two monitoring scripts of the repository:                  *)
(*   monitoring-scripts/app_health_checker.py     (endpoint checker)       *)
(*   monitoring-scripts/system_health_monitor.py  (system resource monitor)*)
(*                                                                         *)
(* Percentages are kept in hundredths of a percent (80.01% is 8001), so    *)
(* that the comparison of a measured float with an integer threshold is    *)
(* exact integer arithmetic.  Wall-clock timestamps are left out: no       *)
(* branch of either script reads them.                                     *)
(***************************************************************************)
EXTENDS Integers, Sequences, FiniteSets, TLC

VARIABLES
    prog,          \* which script runs: "app", "sys", or "probe" (one call of check_application_health)
    pc,            \* position of the script's single thread
    continuous,    \* args.continuous
    timeout,       \* args.timeout (seconds)
    argFile,       \* args.file: NoFile, MissingFile, or the file's lines
    argUrls,       \* args.urls: the positional URLs
    urls,          \* main's local `urls`
    results,       \* check_multiple_urls' local `results`
    probed,        \* history: what each probe of a one-shot run was given and met
    nProbes,       \* history: number of probe commands issued
    summary,       \* the SUMMARY line printed by check_multiple_urls
    outcome,       \* what the probe in flight meets (single-call specification)
    result,        \* the verdict last returned by check_application_health
    exitCode,      \* process exit status, -1 while running
    tick,          \* history: ticks started by continuous_monitor
    emitted,       \* history: verdicts / reports printed by continuous_monitor or main
    slept,         \* history: inter-tick sleeps that ran to their end
    sigCount,      \* history: interrupts delivered
    ticksAfterSig, \* history: ticks started after the first interrupt
    thresholds,    \* the parsed thresholds
    logFile,       \* args.log given
    cpu_usage, memory_usage, disk_usage,   \* check_system_health's locals, hundredths of a percent
    alerts,        \* health_data['alerts']
    logged,        \* history: calls of log_to_file that returned
    logFailures,   \* history: calls of log_to_file whose write failed
    logMessages    \* history: "Error writing to log file" lines printed

vars == << prog, pc, continuous, timeout, argFile, argUrls, urls, results, probed,
           nProbes, summary, outcome, result, exitCode, tick, emitted, slept,
           sigCount, ticksAfterSig, thresholds, logFile, cpu_usage, memory_usage,
           disk_usage, alerts, logged, logFailures, logMessages >>

---------------------------------------------------------------------------
(* Bounds of the model *)

MaxTargets == 2     \* longest positional URL list
MaxLines == 2       \* longest URL file
MaxTicks == 2       \* ticks a continuous run is followed for
MaxSignals == 2     \* interrupts delivered to one run
MaxDelta == 1       \* measured values range over threshold +- MaxDelta hundredths
MaxDigits == 3      \* longest all-digit probe output

---------------------------------------------------------------------------
(* Text handling of check_application_health *)

Digits == {"0", "1", "2", "3", "4", "5", "6", "7", "8", "9"}

Whitespace == {" ", "\n", "\t"}

DigitVal(d) ==
    CASE d = "0" -> 0 [] d = "1" -> 1 [] d = "2" -> 2 [] d = "3" -> 3
      [] d = "4" -> 4 [] d = "5" -> 5 [] d = "6" -> 6 [] d = "7" -> 7
      [] d = "8" -> 8 [] d = "9" -> 9

\* str.strip(): leading and trailing whitespace removed
RECURSIVE strip(_)
strip(s) ==
    IF Len(s) = 0 THEN s
    ELSE IF SubSeq(s, 1, 1) \in Whitespace THEN strip(SubSeq(s, 2, Len(s)))
    ELSE IF SubSeq(s, Len(s), Len(s)) \in Whitespace THEN strip(SubSeq(s, 1, Len(s) - 1))
    ELSE s

\* str.isdigit(): non-empty and every character a digit
isdigit(s) ==
    /\ Len(s) > 0
    /\ \A i \in 1..Len(s) : SubSeq(s, i, i) \in Digits

\* int(s) for an all-digit s
RECURSIVE int(_)
int(s) ==
    IF Len(s) = 0 THEN 0
    ELSE 10 * int(SubSeq(s, 1, Len(s) - 1)) + DigitVal(SubSeq(s, Len(s), Len(s)))

\* All-digit strings of exactly n characters
RECURSIVE DigitStrings(_)
DigitStrings(n) ==
    IF n = 0 THEN {""}
    ELSE {s \o d : s \in DigitStrings(n - 1), d \in Digits}

---------------------------------------------------------------------------
(* What one run of the probe command can meet.                             *)
(*   how = "exit"    : curl ended by itself; stdout is what -w '%{http_code}'*)
(*                     printed ("000" when no HTTP response was received)   *)
(*   how = "maxtime" : curl stopped at its own --max-time limit; it still   *)
(*                     prints the response code it had received by then,    *)
(*                     "000" when it had none, and then exits               *)
(*   how = "expired" : the command did not return within timeout + 2 s and  *)
(*                     subprocess.run raised TimeoutExpired                 *)
(*   how = "raise"   : subprocess.run raised another Exception (the command *)
(*                     could not be launched)                               *)

Exited(out) == [how |-> "exit", stdout |-> out, err |-> ""]
MaxTimed(out) == [how |-> "maxtime", stdout |-> out, err |-> ""]
Expired == [how |-> "expired", stdout |-> "", err |-> ""]
Raised(e) == [how |-> "raise", stdout |-> "", err |-> e]

LaunchError == "[Errno 2] No such file or directory: 'curl'"

\* The status value a verdict carries: an int, or one of the sentinels
IntCode(n) == [sentinel |-> "", value |-> n]
Sentinel(s) == [sentinel |-> s, value |-> 0]

\* subprocess.TimeoutExpired handler
TimeoutVerdict(url, t) ==
    [url |-> url, status |-> "DOWN", status_code |-> Sentinel("TIMEOUT"),
     message |-> "Request timeout after " \o ToString(t) \o " seconds"]

\* Classify with the upper ends of the ranges taken as inclusive
Classify_inclusive(status_code) ==
    IF 200 <= status_code /\ status_code <= 300
      THEN [status |-> "UP", message |-> "Application is functioning correctly"]
    ELSE IF 300 <= status_code /\ status_code <= 400
      THEN [status |-> "UP", message |-> "Application is up (redirect)"]
    ELSE IF 400 <= status_code /\ status_code <= 500
      THEN [status |-> "DOWN",
            message |-> "Client error (HTTP " \o ToString(status_code) \o ")"]
    ELSE IF 500 <= status_code /\ status_code <= 600
      THEN [status |-> "DOWN",
            message |-> "Server error (HTTP " \o ToString(status_code) \o ")"]
    ELSE [status |-> "UNKNOWN",
          message |-> "Unexpected status code: " \o ToString(status_code)]

\* Unparsable that lets an all-zero output through as a connection failure
Unparsable_zero(status_code) ==
    status_code = "" \/ ~isdigit(status_code) \/ int(status_code) = 0

\* The if/elif chain on the integer status code
Classify(status_code) ==
    IF 200 <= status_code /\ status_code < 300
      THEN [status |-> "UP", message |-> "Application is functioning correctly"]
    ELSE IF 300 <= status_code /\ status_code < 400
      THEN [status |-> "UP", message |-> "Application is up (redirect)"]
    ELSE IF 400 <= status_code /\ status_code < 500
      THEN [status |-> "DOWN",
            message |-> "Client error (HTTP " \o ToString(status_code) \o ")"]
    ELSE IF 500 <= status_code /\ status_code < 600
      THEN [status |-> "DOWN",
            message |-> "Server error (HTTP " \o ToString(status_code) \o ")"]
    ELSE [status |-> "UNKNOWN",
          message |-> "Unexpected status code: " \o ToString(status_code)]

\* The guard of the early return: `not status_code or not status_code.isdigit()`
Unparsable(status_code) == status_code = "" \/ ~isdigit(status_code)

check_application_health(url, t, o) ==
    IF o.how = "expired" THEN TimeoutVerdict(url, t)
    ELSE IF o.how = "raise" THEN
        [url |-> url, status |-> "DOWN", status_code |-> Sentinel("ERROR"),
         message |-> "Error: " \o o.err]
    ELSE \* the command returned; only its stdout is read
        LET status_code == strip(o.stdout) IN
        IF Unparsable(status_code) THEN
            [url |-> url, status |-> "DOWN", status_code |-> Sentinel("N/A"),
             message |-> "Unable to connect or receive response"]
        ELSE
            LET c == Classify(int(status_code)) IN
            [url |-> url, status |-> c.status, status_code |-> IntCode(int(status_code)),
             message |-> c.message]


---------------------------------------------------------------------------
(* Inputs *)

Targets == {"https://good.example", "https://bad.example"}

DefaultTimeout == 5
Timeouts == {DefaultTimeout, 10}

HttpCodeLen == 3   \* curl's %{http_code} is three digits

\* Probe output that is not a number: nothing at all, or text
NonNumeric == {"", " ", "abc", "20x", "4 04"}

\* A status code with whitespace around it
Padded == {" 200\n", "503\n", "\t000"}

\* Every all-digit output of 1..MaxDigits characters
NumericOutputs == UNION {DigitStrings(n) : n \in 1..MaxDigits}

\* The outcomes one call of check_application_health is checked on
AllOutcomes ==
    {Exited(s) : s \in NumericOutputs \cup NonNumeric \cup Padded}
      \cup {MaxTimed(s) : s \in DigitStrings(HttpCodeLen)}
      \cup {Expired, Raised(LaunchError)}

\* The outcomes the whole-program runs draw from
SampleOutcomes ==
    {Exited(s) : s \in {"200", "301", "404", "503", "000", "199", "", "abc"}}
      \cup {MaxTimed(s) : s \in {"000", "200"}}
      \cup {Expired, Raised(LaunchError)}

NoFile == <<"--no-file--">>
MissingFile == <<"--missing--">>
NoResult == [url |-> "", status |-> "", status_code |-> Sentinel(""), message |-> ""]
NoOutcome == [how |-> "", stdout |-> "", err |-> ""]
NoSummary == [up_count |-> -1, down_count |-> -1, total |-> -1]
NoValue == 0 - 1
NoThresholds == [cpu |-> -1, memory |-> -1, disk |-> -1]

\* The values of the variables a specification does not use
AppIdle ==
    /\ argFile = NoFile /\ argUrls = <<>> /\ urls = <<>>
    /\ results = <<>> /\ probed = <<>> /\ summary = NoSummary
SysIdle ==
    /\ thresholds = NoThresholds /\ logFile = FALSE
    /\ cpu_usage = NoValue /\ memory_usage = NoValue /\ disk_usage = NoValue
    /\ alerts = <<>> /\ logged = 0 /\ logFailures = 0 /\ logMessages = 0
LoopIdle ==
    /\ tick = 0 /\ emitted = 0 /\ slept = 0 /\ sigCount = 0 /\ ticksAfterSig = 0

appVars == << argFile, argUrls, urls, results, probed, summary >>
sysVars == << thresholds, logFile, cpu_usage, memory_usage, disk_usage, alerts,
              logged, logFailures, logMessages >>
loopVars == << tick, emitted, slept, sigCount, ticksAfterSig >>

---------------------------------------------------------------------------
(* One call of check_application_health(url, timeout) *)

InitProbe ==
    /\ prog = "probe" /\ pc = "call"
    /\ continuous = FALSE
    /\ timeout \in Timeouts
    /\ outcome \in AllOutcomes
    /\ result = NoResult
    /\ nProbes = 0 /\ exitCode = -1
    /\ AppIdle /\ SysIdle /\ LoopIdle

ProbeCall ==
    /\ prog = "probe" /\ pc = "call"
    /\ result' = check_application_health("https://good.example", timeout, outcome)
    /\ nProbes' = nProbes + 1
    /\ pc' = "returned"
    /\ UNCHANGED << prog, continuous, timeout, outcome, exitCode, appVars, sysVars, loopVars >>

NextProbe == ProbeCall

SpecProbe == InitProbe /\ [][NextProbe]_vars


---------------------------------------------------------------------------
(* Properties of one call of check_application_health *)

\* pat occurs in msg
Contains(msg, pat) ==
    \E i \in 1..(Len(msg) - Len(pat) + 1) : SubSeq(msg, i, i + Len(pat) - 1) = pat

Mentions(msg, words) ==
    \E w \in words : Contains(msg, w)

Returned == prog = "probe" /\ pc = "returned"

\* C1: every integer status code the probe returns is classified by the
\* half-open ranges: [200,300) UP, [300,400) UP with a redirect message,
\* [400,500) DOWN mentioning client error, [500,600) DOWN mentioning server
\* error, and a code below 200 or from 600 on is neither UP nor DOWN.
C1_StatusRanges ==
    (Returned /\ result.status_code.sentinel = "") =>
        LET c == result.status_code.value IN
        /\ (c >= 200 /\ c <= 299) => result.status = "UP"
        /\ (c >= 300 /\ c <= 399) =>
              result.status = "UP" /\ Mentions(result.message, {"redirect"})
        /\ (c >= 400 /\ c <= 499) =>
              result.status = "DOWN"
                /\ Mentions(result.message, {"Client error", "client error"})
        /\ (c >= 500 /\ c <= 599) =>
              result.status = "DOWN"
                /\ Mentions(result.message, {"Server error", "server error"})
        /\ (c <= 199 \/ c >= 600) => result.status \notin {"UP", "DOWN"}
        /\ ~(c >= 200 /\ c <= 299) => ~Mentions(result.message, {"functioning"})
        /\ ~(c >= 300 /\ c <= 399) => ~Mentions(result.message, {"redirect"})

\* C1 witness: the probe returned 499 and the verdict is a client-error DOWN
C1_Witness ==
    /\ Returned
    /\ outcome = Exited("499")
    /\ result.status_code = IntCode(499)
    /\ result.status = "DOWN"
    /\ result.message = "Client error (HTTP 499)"

\* C2: a probe that exceeds the timeout, whether the command stops at its own
\* --max-time or is abandoned after timeout + 2 s, gets status DOWN and
\* status_code 'TIMEOUT'.
C2_TimeoutSentinel ==
    (Returned /\ outcome.how \in {"maxtime", "expired"}) =>
        /\ result.status = "DOWN"
        /\ result.status_code = Sentinel("TIMEOUT")

\* The part of C2 the code keeps: an abandoned command gets DOWN / 'TIMEOUT'
C2_AbandonedIsTimeout ==
    (Returned /\ outcome.how = "expired") =>
        /\ result.status = "DOWN"
        /\ result.status_code = Sentinel("TIMEOUT")
        /\ Contains(result.message, ToString(timeout))

\* C9: a probe whose output is a number outside [200,600) (the all-zero code
\* included) gets UNKNOWN and a message naming that code; an empty or
\* non-numeric output gets DOWN with status_code 'N/A'; the message is
\* non-empty in both cases.
C9_OutOfRange ==
    (Returned /\ outcome.how \in {"exit", "maxtime"}) =>
        /\ outcome.stdout \in NumericOutputs =>
              LET c == int(outcome.stdout) IN
              (c <= 199 \/ c >= 600) =>
                  /\ result.status = "UNKNOWN"
                  /\ result.status_code = IntCode(c)
                  /\ Contains(result.message, "Unexpected status code")
                  /\ Contains(result.message, ToString(c))
        /\ outcome.stdout \in NonNumeric =>
              /\ result.status = "DOWN"
              /\ result.status_code = Sentinel("N/A")
              /\ result.message # ""

\* C9 witness: curl printed 000 and the verdict is UNKNOWN naming code 0
C9_Witness ==
    /\ Returned
    /\ outcome = Exited("000")
    /\ result.status = "UNKNOWN"
    /\ result.message = "Unexpected status code: 0"


---------------------------------------------------------------------------
(* app_health_checker.py: main, check_multiple_urls, continuous_monitor *)

\* Lines a URL file can hold (each as iteration over the file yields it)
FileLines == {t \o "\n" : t \in Targets} \cup {"\n", "# staging hosts\n"}

RECURSIVE SeqsUpTo(_, _)
SeqsUpTo(S, n) ==
    IF n = 0 THEN {<<>>}
    ELSE SeqsUpTo(S, n - 1) \cup {Append(q, x) : q \in {r \in SeqsUpTo(S, n - 1) : Len(r) = n - 1}, x \in S}

\* str.startswith
startswith(s, prefix) ==
    Len(s) >= Len(prefix) /\ SubSeq(s, 1, Len(prefix)) = prefix

\* [line.strip() for line in f if line.strip() and not line.startswith('#')]
RECURSIVE read_urls_from_file(_)
read_urls_from_file(lines) ==
    IF lines = <<>> THEN <<>>
    ELSE LET line == Head(lines)
             rest == read_urls_from_file(Tail(lines))
         IN IF strip(line) # "" /\ ~startswith(line, "#")
              THEN <<strip(line)>> \o rest
              ELSE rest

\* sum(1 for r in results if r['status'] == st)
RECURSIVE CountStatus(_, _)
CountStatus(rs, st) ==
    IF rs = <<>> THEN 0
    ELSE (IF Head(rs).status = st THEN 1 ELSE 0) + CountStatus(Tail(rs), st)

UpCount(rs) == CountStatus(rs, "UP")

\* A down count that takes every verdict that is not UP for DOWN
DownCount_notUp(rs) == Len(rs) - CountStatus(rs, "UP")

DownCount(rs) == CountStatus(rs, "DOWN")

\* The continuous-mode check of main, loosened by one
ContinuousRejected_offByOne(us) == Len(us) > 2

\* `if len(urls) > 1` under `if args.continuous`
ContinuousRejected(us) == Len(us) > 1

InitApp ==
    /\ prog = "app" /\ pc = "main"
    /\ continuous \in BOOLEAN
    /\ timeout \in Timeouts
    /\ \/ argFile = NoFile /\ argUrls \in SeqsUpTo(Targets, MaxTargets)
       \/ /\ argFile \in {MissingFile} \cup SeqsUpTo(FileLines, MaxLines)
          /\ argUrls \in SeqsUpTo(Targets, 1)
    /\ urls = <<>> /\ results = <<>> /\ probed = <<>> /\ summary = NoSummary
    /\ outcome = NoOutcome /\ result = NoResult
    /\ nProbes = 0 /\ exitCode = -1
    /\ SysIdle /\ LoopIdle

\* sys.exit(1)
AppExit1 ==
    /\ pc' = "exit" /\ exitCode' = 1
    /\ UNCHANGED << tick >>

\* main(): the URLs are determined and checked, and the mode is entered
AppMain ==
    /\ prog = "app" /\ pc = "main"
    /\ IF argFile # NoFile
         THEN IF argFile = MissingFile
                THEN urls' = <<>>            \* read_urls_from_file exits
                ELSE urls' = read_urls_from_file(argFile)
         ELSE urls' = argUrls
    /\ IF argFile = MissingFile THEN AppExit1
       ELSE IF argFile = NoFile /\ argUrls = <<>> THEN AppExit1   \* print_help
       ELSE IF urls' = <<>> THEN AppExit1                         \* No URLs provided
       ELSE IF continuous
         THEN IF ContinuousRejected(urls') THEN AppExit1
              ELSE pc' = "tick" /\ tick' = 1 /\ exitCode' = exitCode
         ELSE pc' = "oneshot" /\ UNCHANGED << tick, exitCode >>
    /\ UNCHANGED << prog, continuous, timeout, argFile, argUrls, results, probed,
                    nProbes, summary, outcome, result, emitted, slept, sigCount,
                    ticksAfterSig, sysVars >>

\* check_multiple_urls: one pass of `for url in urls`
AppCheckUrl ==
    /\ prog = "app" /\ pc = "oneshot"
    /\ Len(results) < Len(urls)
    /\ \E o \in SampleOutcomes :
         LET url == urls[Len(results) + 1]
             r == check_application_health(url, timeout, o)
         IN /\ result' = r
            /\ results' = Append(results, r)
            /\ probed' = Append(probed, [url |-> url, outcome |-> o])
    /\ nProbes' = nProbes + 1
    /\ emitted' = emitted + 1
    /\ UNCHANGED << prog, pc, continuous, timeout, argFile, argUrls, urls, summary,
                    outcome, exitCode, tick, slept, sigCount, ticksAfterSig, sysVars >>

\* check_multiple_urls: the summary after the loop, then main returns
AppSummary ==
    /\ prog = "app" /\ pc = "oneshot"
    /\ Len(results) = Len(urls)
    /\ summary' = [up_count |-> UpCount(results),
                   down_count |-> DownCount(results),
                   total |-> Len(results)]
    /\ pc' = "done" /\ exitCode' = 0
    /\ UNCHANGED << prog, continuous, timeout, argFile, argUrls, urls, results, probed,
                    nProbes, outcome, result, loopVars, sysVars >>

\* continuous_monitor: the probe of a tick returns and its verdict is printed
AppContProbe ==
    /\ prog = "app" /\ pc = "tick"
    /\ \E o \in SampleOutcomes :
         result' = check_application_health(urls[1], timeout, o)
    /\ nProbes' = nProbes + 1
    /\ emitted' = emitted + 1
    /\ pc' = "sleep"
    /\ UNCHANGED << prog, continuous, timeout, argFile, argUrls, urls, results, probed,
                    summary, outcome, exitCode, tick, slept, sigCount, ticksAfterSig,
                    sysVars >>

\* continuous_monitor: time.sleep(interval) returns and the loop goes round
AppSleepEnd ==
    /\ prog = "app" /\ pc = "sleep"
    /\ tick < MaxTicks
    /\ slept' = slept + 1
    /\ tick' = tick + 1
    /\ ticksAfterSig' = IF sigCount > 0 THEN ticksAfterSig + 1 ELSE ticksAfterSig
    /\ pc' = "tick"
    /\ UNCHANGED << prog, continuous, timeout, argFile, argUrls, urls, results, probed,
                    nProbes, summary, outcome, result, exitCode, emitted, sigCount,
                    sysVars >>

\* KeyboardInterrupt in the endpoint checker.  `except Exception` in
\* check_application_health does not catch it; continuous_monitor's handler does.
AppInterrupt ==
    /\ prog = "app" /\ pc \in {"oneshot", "tick", "sleep"}
    /\ sigCount < MaxSignals
    /\ sigCount' = sigCount + 1
    /\ IF pc = "oneshot"
         THEN pc' = "aborted" /\ exitCode' = 130    \* uncaught in one-shot mode
         ELSE pc' = "stopped" /\ exitCode' = 0      \* "Monitoring stopped by user."
    /\ UNCHANGED << prog, continuous, timeout, argFile, argUrls, urls, results, probed,
                    nProbes, summary, outcome, result, tick, emitted, slept,
                    ticksAfterSig, sysVars >>

NextApp == AppMain \/ AppCheckUrl \/ AppSummary \/ AppContProbe \/ AppSleepEnd \/ AppInterrupt


---------------------------------------------------------------------------
(* system_health_monitor.py: main, check_system_health, log_to_file,       *)
(* continuous_monitor                                                      *)

DEFAULT_THRESHOLDS == [cpu |-> 80, memory |-> 80, disk |-> 80]

\* --thresholds values, as the key=value pairs the string splits into
ThresholdArgs ==
    { <<>>,
      << [key |-> "cpu", value |-> 50] >>,
      << [key |-> "cpu", value |-> 90], [key |-> "memory", value |-> 85],
         [key |-> "disk", value |-> 80] >> }

\* thresholds = DEFAULT_THRESHOLDS.copy(); thresholds[key] = int(value) per pair
RECURSIVE parse_thresholds_from(_, _)
parse_thresholds_from(th, pairs) ==
    IF pairs = <<>> THEN th
    ELSE parse_thresholds_from([th EXCEPT ![Head(pairs).key] = Head(pairs).value],
                               Tail(pairs))

parse_thresholds(pairs) == parse_thresholds_from(DEFAULT_THRESHOLDS, pairs)

\* One percent, in the unit the measured values are kept in
Percent == 100

\* Values a metric is measured at around its limit
Near(limit) == {limit * Percent + d : d \in (0 - MaxDelta)..MaxDelta}

Min(a, b) == IF a < b THEN a ELSE b

\* get_cpu_usage's fallback: min(load * 25, 100), or 0.0 when /proc/loadavg
\* cannot be read
CpuFallbacks(limit) ==
    {Min(x, 100 * Percent) : x \in Near(limit) \cup {125 * Percent}} \cup {0}

\* A comparison that also alerts at the limit itself
Exceeds_orEqual(v, limit) == v >= limit * Percent

\* `usage > thresholds[m]`
Exceeds(v, limit) == v > limit * Percent

Alert(text, v, limit) == [text |-> text, value |-> v, threshold |-> limit]

\* check_system_health: the three threshold checks, in order
CheckThresholds(cpu, mem, disk, th) ==
    (IF Exceeds(cpu, th.cpu) THEN << Alert("CPU usage is HIGH", cpu, th.cpu) >> ELSE <<>>)
      \o (IF Exceeds(mem, th.memory)
            THEN << Alert("Memory usage is HIGH", mem, th.memory) >> ELSE <<>>)
      \o (IF Exceeds(disk, th.disk)
            THEN << Alert("Disk usage is HIGH", disk, th.disk) >> ELSE <<>>)

\* log_to_file with no exception handler
log_to_file_unhandled(ok) ==
    IF ok THEN [raised |-> FALSE, printed |-> "Report logged to"]
    ELSE [raised |-> TRUE, printed |-> ""]

\* log_to_file: the write succeeds or its Exception is caught and printed
log_to_file(ok) ==
    IF ok THEN [raised |-> FALSE, printed |-> "Report logged to"]
    ELSE [raised |-> FALSE, printed |-> "Error writing to log file"]

\* Where control goes once a round's report is printed and logged
AfterLog(cont) == IF cont THEN "sleep" ELSE "done"

\* The report is printed and the sleep starts without the log append
AfterReport_noLog(lf, cont) == AfterLog(cont)

\* `if log_file: log_to_file(...)` after print(report)
AfterReport(lf, cont) == IF lf THEN "log" ELSE AfterLog(cont)

InitSys ==
    /\ prog = "sys" /\ pc = "main"
    /\ continuous \in BOOLEAN
    /\ logFile \in BOOLEAN
    /\ \E a \in ThresholdArgs : thresholds = parse_thresholds(a)
    /\ cpu_usage = NoValue /\ memory_usage = NoValue /\ disk_usage = NoValue
    /\ alerts = <<>> /\ logged = 0 /\ logFailures = 0 /\ logMessages = 0
    /\ timeout = DefaultTimeout
    /\ outcome = NoOutcome /\ result = NoResult
    /\ nProbes = 0 /\ exitCode = -1
    /\ AppIdle /\ LoopIdle

sysConfig == << prog, continuous, timeout, thresholds, logFile, outcome, result, nProbes,
                appVars >>

\* main(): thresholds are parsed (Init) and the first round starts
SysMain ==
    /\ prog = "sys" /\ pc = "main"
    /\ pc' = "cpu" /\ tick' = 1
    /\ UNCHANGED << sysConfig, exitCode, emitted, slept, sigCount, ticksAfterSig,
                    cpu_usage, memory_usage, disk_usage, alerts, logged, logFailures,
                    logMessages >>

\* get_cpu_usage: the top pipeline gives a value, or anything it raises is
\* caught by the bare except and the fallback value is returned
SysGetCpu ==
    /\ prog = "sys" /\ pc = "cpu"
    /\ cpu_usage' \in Near(thresholds.cpu) \cup CpuFallbacks(thresholds.cpu)
    /\ pc' = "mem"
    /\ UNCHANGED << sysConfig, exitCode, loopVars, memory_usage, disk_usage, alerts,
                    logged, logFailures, logMessages >>

\* get_memory_usage: a value, or 0.0 from the bare except
SysGetMem ==
    /\ prog = "sys" /\ pc = "mem"
    /\ memory_usage' \in Near(thresholds.memory) \cup {0}
    /\ pc' = "disk"
    /\ UNCHANGED << sysConfig, exitCode, loopVars, cpu_usage, disk_usage, alerts,
                    logged, logFailures, logMessages >>

\* get_disk_usage: a value, or 0.0 from the bare except
SysGetDisk ==
    /\ prog = "sys" /\ pc = "disk"
    /\ disk_usage' \in Near(thresholds.disk) \cup {0}
    /\ pc' = "top"
    /\ UNCHANGED << sysConfig, exitCode, loopVars, cpu_usage, memory_usage, alerts,
                    logged, logFailures, logMessages >>

\* get_top_processes(5): the rows only reach the report text
SysGetTop ==
    /\ prog = "sys" /\ pc = "top"
    /\ pc' = "check"
    /\ UNCHANGED << sysConfig, exitCode, loopVars, cpu_usage, memory_usage, disk_usage,
                    alerts, logged, logFailures, logMessages >>

\* check_system_health's threshold checks, format_report and print(report)
SysReport ==
    /\ prog = "sys" /\ pc = "check"
    /\ alerts' = CheckThresholds(cpu_usage, memory_usage, disk_usage, thresholds)
    /\ emitted' = emitted + 1
    /\ pc' = AfterReport(logFile, continuous)
    /\ exitCode' = IF pc' = "done" THEN 0 ELSE exitCode
    /\ UNCHANGED << sysConfig, tick, slept, sigCount, ticksAfterSig, cpu_usage,
                    memory_usage, disk_usage, logged, logFailures, logMessages >>

\* log_to_file(report, log_file)
SysLog ==
    /\ prog = "sys" /\ pc = "log"
    /\ \E ok \in BOOLEAN :
         LET r == log_to_file(ok) IN
         /\ logFailures' = IF ok THEN logFailures ELSE logFailures + 1
         /\ logMessages' = IF r.printed = "Error writing to log file"
                             THEN logMessages + 1 ELSE logMessages
         /\ IF r.raised
              THEN pc' = "aborted" /\ exitCode' = 1 /\ logged' = logged
              ELSE /\ pc' = AfterLog(continuous)
                   /\ exitCode' = IF continuous THEN exitCode ELSE 0
                   /\ logged' = logged + 1
    /\ UNCHANGED << sysConfig, loopVars, cpu_usage, memory_usage, disk_usage, alerts >>

\* continuous_monitor: time.sleep(interval) returns and the loop goes round
SysSleepEnd ==
    /\ prog = "sys" /\ pc = "sleep"
    /\ tick < MaxTicks
    /\ slept' = slept + 1
    /\ tick' = tick + 1
    /\ ticksAfterSig' = IF sigCount > 0 THEN ticksAfterSig + 1 ELSE ticksAfterSig
    /\ cpu_usage' = NoValue /\ memory_usage' = NoValue /\ disk_usage' = NoValue
    /\ alerts' = <<>>
    /\ pc' = "cpu"
    /\ UNCHANGED << sysConfig, exitCode, emitted, sigCount, logged, logFailures,
                    logMessages >>

\* KeyboardInterrupt in the system monitor.  Raised inside one of the get_*
\* functions it is caught by that function's bare `except:` and the function
\* returns its fallback value; raised anywhere else in the loop it reaches
\* continuous_monitor's handler (no handler in one-shot mode).
SysInterrupt ==
    /\ prog = "sys" /\ pc \in {"cpu", "mem", "disk", "top", "check", "log", "sleep"}
    /\ sigCount < MaxSignals
    /\ sigCount' = sigCount + 1
    /\ CASE pc = "cpu" ->
              /\ cpu_usage' \in CpuFallbacks(thresholds.cpu)
              /\ pc' = "mem"
              /\ UNCHANGED << memory_usage, disk_usage, exitCode >>
         [] pc = "mem" ->
              /\ memory_usage' = 0
              /\ pc' = "disk"
              /\ UNCHANGED << cpu_usage, disk_usage, exitCode >>
         [] pc = "disk" ->
              /\ disk_usage' = 0
              /\ pc' = "top"
              /\ UNCHANGED << cpu_usage, memory_usage, exitCode >>
         [] pc = "top" ->
              /\ pc' = "check"
              /\ UNCHANGED << cpu_usage, memory_usage, disk_usage, exitCode >>
         [] OTHER ->
              /\ IF continuous
                   THEN pc' = "stopped" /\ exitCode' = 0
                   ELSE pc' = "aborted" /\ exitCode' = 130
              /\ UNCHANGED << cpu_usage, memory_usage, disk_usage >>
    /\ UNCHANGED << sysConfig, tick, emitted, slept, ticksAfterSig, alerts, logged,
                    logFailures, logMessages >>

NextSys ==
    \/ SysMain \/ SysGetCpu \/ SysGetMem \/ SysGetDisk \/ SysGetTop
    \/ SysReport \/ SysLog \/ SysSleepEnd \/ SysInterrupt

---------------------------------------------------------------------------
(* Either script, run from its command line *)

Init == InitApp \/ InitSys

Next == NextApp \/ NextSys

Spec == Init /\ [][Next]_vars


---------------------------------------------------------------------------
(* Properties of the scripts *)

\* The URL lines of a target file
UrlLines == {t \o "\n" : t \in Targets}

\* The targets a command line registers: the file's, when a file is given
GivenTargets ==
    IF argFile = NoFile THEN argUrls
    ELSE IF argFile = MissingFile THEN <<>>
    ELSE LET kept == SelectSeq(argFile, LAMBDA line : line \in UrlLines)
         IN [i \in 1..Len(kept) |-> CHOOSE t \in Targets : t \o "\n" = kept[i]]

\* C3: in continuous mode an interrupt received at any point of the loop
\* (probe or metric collection, or the sleep) stops the monitor: no tick is
\* started after it, and once the round in flight is over the monitor is
\* stopped instead of sleeping towards another tick.  Both monitors.
C3_InterruptStops ==
    (continuous /\ sigCount > 0) => (ticksAfterSig = 0 /\ pc # "sleep")

\* The part of C3 the endpoint monitor keeps
C3_AppInterruptStops ==
    (prog = "app" /\ continuous /\ sigCount > 0) => (pc = "stopped" /\ ticksAfterSig = 0)

\* Number of alerts of a round that are about the metric named by text
AlertsAbout(text) == Cardinality({i \in 1..Len(alerts) : alerts[i].text = text})

Checked == prog = "sys" /\ pc \in {"log", "sleep", "done"}

\* C4: after check_system_health, each of cpu, memory and disk has an alert
\* exactly when its measured value is strictly above its threshold, and then
\* exactly one.
C4_AlertIffAbove ==
    Checked =>
        /\ AlertsAbout("CPU usage is HIGH")
             = (IF cpu_usage > 100 * thresholds.cpu THEN 1 ELSE 0)
        /\ AlertsAbout("Memory usage is HIGH")
             = (IF memory_usage > 100 * thresholds.memory THEN 1 ELSE 0)
        /\ AlertsAbout("Disk usage is HIGH")
             = (IF disk_usage > 100 * thresholds.disk THEN 1 ELSE 0)
        /\ Len(alerts) = AlertsAbout("CPU usage is HIGH")
                           + AlertsAbout("Memory usage is HIGH")
                           + AlertsAbout("Disk usage is HIGH")

\* C4 witness: cpu 0.01 above its threshold, memory exactly at its threshold,
\* and the only alert is the CPU one
C4_Witness ==
    /\ Checked
    /\ cpu_usage = 100 * thresholds.cpu + 1
    /\ memory_usage = 100 * thresholds.memory
    /\ disk_usage < 100 * thresholds.disk
    /\ Len(alerts) = 1
    /\ alerts[1].text = "CPU usage is HIGH"

\* C5: continuous mode with two or more targets exits non-zero and no probe is
\* issued.
C5_ContinuousMultiRejected ==
    (prog = "app" /\ continuous /\ Len(GivenTargets) >= 2) =>
        /\ nProbes = 0
        /\ pc \in {"main", "exit"}
        /\ pc = "exit" => exitCode = 1

\* C5 witness: two targets read from a file, continuous mode, exited with 1
C5_Witness ==
    /\ prog = "app" /\ continuous
    /\ argFile \notin {NoFile, MissingFile}
    /\ Len(GivenTargets) = 2
    /\ pc = "exit" /\ exitCode = 1 /\ nProbes = 0

\* A probe that did not get a response: it timed out, could not be launched,
\* or printed no status code of a response
FailedProbe(o) ==
    \/ o.how \in {"maxtime", "expired", "raise"}
    \/ o.how = "exit" /\ o.stdout \in {"000", "", "abc"}

OneShotDone == prog = "app" /\ pc = "done"

\* C6: a one-shot run of check_multiple_urls probes every target and returns
\* one verdict per target in input order, and each failed probe has a verdict
\* that is DOWN or UNKNOWN with a non-empty message.
C6_FailuresBecomeVerdicts ==
    OneShotDone =>
        /\ Len(results) = Len(GivenTargets)
        /\ Len(probed) = Len(GivenTargets)
        /\ \A i \in 1..Len(results) :
              /\ results[i].url = GivenTargets[i]
              /\ probed[i].url = GivenTargets[i]
              /\ FailedProbe(probed[i].outcome) =>
                    /\ results[i].status \in {"DOWN", "UNKNOWN"}
                    /\ results[i].message # ""

\* The part of C6 the code keeps: no probe outcome aborts the run, every
\* target gets its verdict in order, and every verdict has a message
C6_NeverAbortsTick ==
    /\ (prog = "app" /\ sigCount = 0) => pc # "aborted"
    /\ OneShotDone =>
          /\ Len(results) = Len(GivenTargets)
          /\ \A i \in 1..Len(results) :
                /\ results[i].url = GivenTargets[i]
                /\ results[i].message # ""
                /\ (FailedProbe(probed[i].outcome) /\ probed[i].outcome.how # "maxtime")
                      => results[i].status \in {"DOWN", "UNKNOWN"}

\* C7: a failed log write is reported as a message and does not abort: in
\* continuous mode the loop goes on to the sleep, in one-shot mode the run
\* completes normally.
C7_PersistFailureContinues ==
    /\ [](logMessages = logFailures /\ (sigCount = 0 => pc # "aborted"))
    /\ [][(pc = "log" /\ logFailures' > logFailures) =>
             /\ logged' = logged + 1
             /\ continuous => (pc' = "sleep" /\ exitCode' = exitCode)
             /\ ~continuous => (pc' = "done" /\ exitCode' = 0)]_vars

\* C7 witness: a tick's log write failed and the next tick is running
C7_Witness ==
    /\ prog = "sys" /\ continuous /\ logFile
    /\ logFailures = 1 /\ logMessages = 1
    /\ tick = 2 /\ pc = "cpu"

\* C8: in continuous mode the sleep starts only after the tick's verdict or
\* report is emitted (and logged, when a log file is configured), a tick starts
\* only after the previous sleep ended, and at most one tick is in progress.
C8_TickSequencing ==
    (continuous /\ pc \notin {"main", "exit"}) =>
        /\ slept = tick - 1
        /\ emitted \in {tick - 1, tick}
        /\ pc = "sleep" =>
              /\ emitted = tick
              /\ (prog = "sys" /\ logFile) => logged = tick
        /\ pc \in {"tick", "cpu", "mem", "disk", "top", "check"} => emitted = tick - 1
        /\ pc = "log" => (emitted = tick /\ logged = tick - 1)
        /\ prog = "app" => nProbes = emitted

\* C8 witness: the second tick's report is out and logged, and the monitor sleeps
C8_Witness ==
    /\ prog = "sys" /\ continuous /\ logFile
    /\ pc = "sleep" /\ tick = 2 /\ slept = 1 /\ emitted = 2 /\ logged = 2

\* Number of verdicts of the run with the given status
Verdicts(st) == Cardinality({i \in 1..Len(results) : results[i].status = st})

SummaryPrinted == prog = "app" /\ summary # NoSummary

\* C10 as stated: the counts are those of the UP and DOWN verdicts, Total is the
\* number of targets, and UP + DOWN = Total.
C10_UpPlusDownIsTotal ==
    SummaryPrinted =>
        /\ summary.up_count = Verdicts("UP")
        /\ summary.down_count = Verdicts("DOWN")
        /\ summary.total = Len(GivenTargets)
        /\ summary.up_count + summary.down_count = summary.total

\* C10 amended: the counts are those of the UP and DOWN verdicts, Total is the
\* number of targets, and UP + DOWN = Total minus the number of UNKNOWN verdicts.
C10_SummaryCounts ==
    SummaryPrinted =>
        /\ summary.up_count = Verdicts("UP")
        /\ summary.down_count = Verdicts("DOWN")
        /\ summary.total = Len(GivenTargets)
        /\ summary.up_count + summary.down_count = summary.total - Verdicts("UNKNOWN")

\* C10 witness: one target UP, one UNKNOWN, and the summary reads 1 UP, 0 DOWN, Total 2
C10_Witness ==
    /\ SummaryPrinted
    /\ Len(results) = 2
    /\ results[1].status = "UP" /\ results[2].status = "UNKNOWN"
    /\ summary = [up_count |-> 1, down_count |-> 0, total |-> 2]

=============================================================================
